---- MODULE Spec2Model ----
(***************************************************************************)
(* A model of the LLVM IR diff tool (LLVMProj/webapp/ir_diff_tool.py) and  *)
(* of the request handlers that drive the external compiler and optimizer  *)
(* (LLVMProj/simple_app.py, LLVMProj/webapp/app.py, Project/app.py).       *)
(*                                                                         *)
(* Text is modelled character by character: a Python str is a sequence of  *)
(* one-character strings, so that startswith, strip, split and the         *)
(* f-string formatting are computed the way the code computes them.        *)
(***************************************************************************)
EXTENDS Integers, Sequences, FiniteSets, TLC

VARIABLES
    \* IRDiffTool.parse_ir (ir_diff_tool.py:43-78)
    content,          \* the text read from the IR file
    idx,              \* position of the for loop in content.split('\n')
    functions,        \* the dict being built, in insertion order
    current_func,     \* None or the name of the open function
    current_blocks,   \* blocks of the open function
    current_block,    \* lines of the open block
    pstate,           \* "idle", "scan", "done" or "raised"
    \* main, lines 278-282: parse both files, diff, analyze
    before_file,      \* text of before.ll
    after_file,       \* text of after.ll
    before_ir,        \* parse_ir("before.ll")
    after_ir,         \* parse_ir("after.ll")
    changes,          \* the dict structural_diff returns
    analysis,         \* the dict analyze_changes returns
    stage,            \* position in the pipeline
    \* IRDiffTool._compare_function (ir_diff_tool.py:106-121)
    before_blocks,
    after_blocks,
    func_changes,     \* the dict _compare_function returns
    cstate,           \* "idle", "call" or "returned"
    \* IRDiffTool._format_side_by_side and _align_lines (ir_diff_tool.py:171-211)
    section,          \* the diff lines of one section
    spos,             \* position of the for loop in section
    output,           \* the rows collected so far
    before_lines,     \* the '-' lines of the open run
    after_lines,      \* the '+' lines of the open run
    aligned,          \* arguments and result of the last _align_lines call
    fstate,           \* "idle", "loop" or "returned"
    \* the request handlers and the files they share
    app,              \* which program serves the requests
    fs,               \* the files in the working directory, by path
    pc,               \* each request's position in its handler
    clang_rc,         \* each request's compile step: "none", "ok", "failed"
    opt_rc,           \* each request's optimize step: "none", "ok", "failed"
    result,           \* the IR each request has read back
    outcome,          \* each request's response: "none", "success", "failure"
    \* IRDiffTool.generate_side_by_side_diff (ir_diff_tool.py:141-169)
    before_text,      \* f1.readlines()
    after_text,       \* f2.readlines()
    diff,             \* list(difflib.unified_diff(...))
    dpos,             \* position of the for loop in diff
    current_section,  \* the diff lines since the last hunk marker
    sbs_output,       \* the output lines collected so far
    sbs_rows,         \* every _align_lines call made so far, with its rows
    sbs_text,         \* the string that is returned
    gstate            \* "idle", "read", "loop" or "returned"

parseVars == <<content, idx, functions, current_func, current_blocks,
               current_block, pstate>>
pipeVars == <<before_file, after_file, before_ir, after_ir, changes, analysis,
              stage>>
compareVars == <<before_blocks, after_blocks, func_changes, cstate>>

formatVars == <<section, spos, output, before_lines, after_lines, aligned, fstate>>

reqVars == <<app, fs, pc, clang_rc, opt_rc, result, outcome>>

sideVars == <<before_text, after_text, diff, dpos, current_section, sbs_output,
              sbs_rows, sbs_text, gstate>>

vars == <<parseVars, pipeVars, compareVars, formatVars, reqVars, sideVars>>

\* the variables of the other parts
notParse == <<pipeVars, compareVars, formatVars, reqVars, sideVars>>
notPipe == <<parseVars, compareVars, formatVars, reqVars, sideVars>>
notCompare == <<parseVars, pipeVars, formatVars, reqVars, sideVars>>
notFormat == <<parseVars, pipeVars, compareVars, reqVars, sideVars>>
notReq == <<parseVars, pipeVars, compareVars, formatVars, sideVars>>
notSide == <<parseVars, pipeVars, compareVars, formatVars, reqVars>>

(***************************************************************************)
(* Bounds of the model.                                                    *)
(***************************************************************************)
MaxLines == 3         \* lines of a parsed document
MaxDiffLines == 2     \* lines after the first of each of the two documents diffed
MaxBlocks == 3        \* blocks of a function given to _compare_function
MaxBucket == 2        \* entries of a list of the changes dict
MaxSection == 3       \* diff lines of a section given to _format_side_by_side
NumRequests == 2      \* requests in flight at the same time
MaxTextLines == 3     \* lines of a file given to generate_side_by_side_diff

(***************************************************************************)
(* Python str operations on sequences of characters.                       *)
(***************************************************************************)
\* str.startswith(prefix)
StartsWith(s, p) == Len(s) >= Len(p) /\ SubSeq(s, 1, Len(p)) = p

\* the characters str.strip() and str.rstrip() remove
Whitespace == {" ", "\t", "\n", "\r", "\f"}

RECURSIVE LStrip(_)
LStrip(s) == IF s # <<>> /\ Head(s) \in Whitespace THEN LStrip(Tail(s)) ELSE s

RECURSIVE RStrip(_)
RStrip(s) ==
    IF s # <<>> /\ s[Len(s)] \in Whitespace
    THEN RStrip(SubSeq(s, 1, Len(s) - 1))
    ELSE s

\* str.strip()
Strip(s) == RStrip(LStrip(s))

\* str.find(sep) from position k on, 1-based; 0 when sep does not occur
RECURSIVE Find(_, _, _)
Find(s, sep, k) ==
    IF k > Len(s) THEN 0
    ELSE IF s[k] = sep THEN k
    ELSE Find(s, sep, k + 1)

\* str.split(sep) for a one-character separator: never empty, one more
\* piece than there are separators
RECURSIVE Split(_, _)
Split(s, sep) ==
    LET at == Find(s, sep, 1)
    IN  IF at = 0 THEN <<s>>
        ELSE <<SubSeq(s, 1, at - 1)>> \o Split(SubSeq(s, at + 1, Len(s)), sep)

\* sep.join(pieces)
RECURSIVE Join(_, _)
Join(pieces, sep) ==
    IF pieces = <<>> THEN <<>>
    ELSE IF Len(pieces) = 1 THEN pieces[1]
    ELSE pieces[1] \o <<sep>> \o Join(Tail(pieces), sep)

\* sequences over S of length at most n
BoundedSeq(S, n) == UNION {[1..k -> S] : k \in 0..n}

(***************************************************************************)
(* The lines documents are built from.                                     *)
(***************************************************************************)
KwDefine   == <<"d", "e", "f", "i", "n", "e">>
TwoSpaces  == <<" ", " ">>

LDefF      == KwDefine \o <<" ", "@", "f", "(", ")">>     \* define @f()
LDefG      == KwDefine \o <<" ", "@", "g", "(", ")">>     \* define @g()
LDefNoAt   == KwDefine \o <<" ", "f", "(", ")">>          \* define f()
LDefNoPar  == KwDefine \o <<" ", "@", "h">>               \* define @h
LRet       == TwoSpaces \o <<"r", "e", "t">>              \* "  ret"
LNew       == TwoSpaces \o <<"%", "1", "=", "x">>         \* "  %1=x"
LZero      == TwoSpaces \o <<"%", "0", "=", "x">>         \* "  %0=x"
LComment   == TwoSpaces \o <<";", "c">>                   \* "  ;c"
LOneSpace  == <<" ", "r", "e", "t">>                      \* " ret"
LTab       == <<"\t", "r", "e", "t">>                     \* "\tret"
LClose     == <<"}">>                                     \* }
LBlank     == <<>>                                        \* empty line

Lexicon == {LDefF, LDefG, LDefNoAt, LDefNoPar, LRet, LNew, LZero, LComment,
            LOneSpace, LTab, LClose, LBlank}

(***************************************************************************)
(* IRDiffTool.parse_ir                                                     *)
(***************************************************************************)
\* Python's None for current_func
None == <<"None">>

\* truth value of current_func: None and '' are false
Truthy(name) == name # None /\ name # <<>>

\* functions[name] = blocks on an insertion-ordered dict
DictSet(d, name, blocks) ==
    IF \E k \in 1..Len(d) : d[k].name = name
    THEN [k \in 1..Len(d) |->
            IF d[k].name = name THEN [name |-> name, blocks |-> blocks] ELSE d[k]]
    ELSE Append(d, [name |-> name, blocks |-> blocks])

DictKeys(d) == {d[k].name : k \in 1..Len(d)}

DictGet(d, name) == d[CHOOSE k \in 1..Len(d) : d[k].name = name].blocks

\* the locals of parse_ir before the loop (lines 49-52)
ParseStart ==
    [functions |-> <<>>, current_func |-> None, current_blocks |-> <<>>,
     current_block |-> <<>>, raised |-> FALSE]

\* the branch of a 'define' line (lines 55-60)
DefineLine(st, line) ==
    LET funcs == IF Truthy(st.current_func)
                 THEN DictSet(st.functions, st.current_func, st.current_blocks)
                 ELSE st.functions
        parts == Split(line, "@")
    IN  IF Len(parts) < 2
        THEN [st EXCEPT !.functions = funcs, !.raised = TRUE]   \* IndexError
        ELSE [st EXCEPT !.functions = funcs,
                        !.current_func = Split(parts[2], "(")[1],
                        !.current_blocks = <<>>,
                        !.current_block = <<line>>]

\* the branch of a line indented by two spaces (lines 61-69)
BodyLine(st, line) ==
    IF StartsWith(Strip(line), <<";">>) THEN st
    ELSE IF StartsWith(Strip(line), <<"%">>) /\ ~StartsWith(Strip(line), <<"%", "0">>)
    THEN [st EXCEPT !.current_blocks =
                        IF st.current_block # <<>>
                        THEN Append(st.current_blocks, st.current_block)
                        ELSE st.current_blocks,
                    !.current_block = <<line>>]
    ELSE [st EXCEPT !.current_block = Append(st.current_block, line)]

\* the branch of any other line (lines 70-73)
OtherLine(st, line) ==
    IF st.current_block # <<>>
    THEN [st EXCEPT !.current_blocks = Append(st.current_blocks, st.current_block),
                    !.current_block = <<>>]
    ELSE st

\* one iteration of the loop (lines 54-73)
ParseStep(st, line) ==
    IF StartsWith(line, KwDefine) THEN DefineLine(st, line)
    ELSE IF StartsWith(line, TwoSpaces) THEN BodyLine(st, line)
    ELSE OtherLine(st, line)

\* ParseFinish without the test of current_func
ParseFinishUnguarded(st) ==
    [st EXCEPT !.functions = DictSet(st.functions, st.current_func, st.current_blocks)]

\* after the loop (lines 75-76)
ParseFinish(st) ==
    IF Truthy(st.current_func)
    THEN [st EXCEPT !.functions =
                        DictSet(st.functions, st.current_func, st.current_blocks)]
    ELSE st

\* the lines the loop visits
Lines(text) == Split(text, "\n")

(***************************************************************************)
(* The line scan of parse_ir as a state machine.                           *)
(***************************************************************************)
ScanState ==
    [functions |-> functions, current_func |-> current_func,
     current_blocks |-> current_blocks, current_block |-> current_block,
     raised |-> FALSE]

SetScanState(st) ==
    /\ functions' = st.functions
    /\ current_func' = st.current_func
    /\ current_blocks' = st.current_blocks
    /\ current_block' = st.current_block

\* a part of the program that is not running
ParseIdle ==
    /\ content = <<>>
    /\ idx = 0
    /\ functions = <<>>
    /\ current_func = None
    /\ current_blocks = <<>>
    /\ current_block = <<>>
    /\ pstate = "idle"

PipeIdle ==
    /\ before_file = <<>>
    /\ after_file = <<>>
    /\ before_ir = <<>>
    /\ after_ir = <<>>
    /\ changes = <<>>
    /\ analysis = <<>>
    /\ stage = "idle"

CompareIdle ==
    /\ before_blocks = <<>>
    /\ after_blocks = <<>>
    /\ func_changes = <<>>
    /\ cstate = "idle"

FormatIdle ==
    /\ section = <<>>
    /\ spos = 0
    /\ output = <<>>
    /\ before_lines = <<>>
    /\ after_lines = <<>>
    /\ aligned = <<>>
    /\ fstate = "idle"

ReqIdle ==
    /\ app = "none"
    /\ fs = <<>>
    /\ pc = <<>>
    /\ clang_rc = <<>>
    /\ opt_rc = <<>>
    /\ result = <<>>
    /\ outcome = <<>>

SideIdle ==
    /\ before_text = <<>>
    /\ after_text = <<>>
    /\ diff = <<>>
    /\ dpos = 0
    /\ current_section = <<>>
    /\ sbs_output = <<>>
    /\ sbs_rows = <<>>
    /\ sbs_text = <<>>
    /\ gstate = "idle"

ParseInit ==
    /\ PipeIdle /\ CompareIdle /\ FormatIdle /\ ReqIdle /\ SideIdle
    /\ content \in {Join(ls, "\n") : ls \in BoundedSeq(Lexicon, MaxLines)}
    /\ idx = 1
    /\ functions = ParseStart.functions
    /\ current_func = ParseStart.current_func
    /\ current_blocks = ParseStart.current_blocks
    /\ current_block = ParseStart.current_block
    /\ pstate = "scan"

\* one iteration of the for loop
ParseLine ==
    /\ pstate = "scan"
    /\ idx <= Len(Lines(content))
    /\ \E st \in {ParseStep(ScanState, Lines(content)[idx])} :
           /\ SetScanState(st)
           /\ pstate' = IF st.raised THEN "raised" ELSE "scan"
    /\ idx' = idx + 1
    /\ UNCHANGED <<content, notParse>>

\* the loop is exhausted: flush the open function and return
ParseReturn ==
    /\ pstate = "scan"
    /\ idx > Len(Lines(content))
    /\ SetScanState(ParseFinish(ScanState))
    /\ pstate' = "done"
    /\ UNCHANGED <<content, idx, notParse>>

\* parse_ir on a whole text: the loop over every line, then the flush; a
\* raise ends the loop
RECURSIVE ParseLoop(_, _, _)
ParseLoop(st, lines, k) ==
    IF st.raised \/ k > Len(lines) THEN st
    ELSE ParseLoop(ParseStep(st, lines[k]), lines, k + 1)

ParseIr(text) ==
    LET st == ParseLoop(ParseStart, Lines(text), 1)
    IN  IF st.raised THEN st ELSE ParseFinish(st)

ParseNext == ParseLine \/ ParseReturn

SpecParse == ParseInit /\ [][ParseNext]_vars

(***************************************************************************)
(* IRDiffTool.structural_diff, _compare_function, _compare_instructions    *)
(***************************************************************************)
\* truth value of a dict: false only when it has no key
DictTruthy(d) == DOMAIN d # {}

Min(a, b) == IF a < b THEN a ELSE b
Max(a, b) == IF a > b THEN a ELSE b

\* zip(before_insts, after_insts), keeping the pairs that differ
RECURSIVE ModifiedPairs(_, _, _)
ModifiedPairs(before_insts, after_insts, k) ==
    IF k > Min(Len(before_insts), Len(after_insts)) THEN <<>>
    ELSE (IF before_insts[k] # after_insts[k]
          THEN <<[before |-> before_insts[k], after |-> after_insts[k]]>>
          ELSE <<>>) \o ModifiedPairs(before_insts, after_insts, k + 1)

\* CompareInstructions that reports the lines of the longer block
CompareInstructionsWithLeftover(before_insts, after_insts) ==
    [added |-> SubSeq(after_insts, Len(before_insts) + 1, Len(after_insts)),
     removed |-> SubSeq(before_insts, Len(after_insts) + 1, Len(before_insts)),
     modified |-> ModifiedPairs(before_insts, after_insts, 1)]

CompareInstructions(before_insts, after_insts) ==
    [added |-> <<>>, removed |-> <<>>,
     modified |-> ModifiedPairs(before_insts, after_insts, 1)]

\* BlockRecorded testing the modified list instead of the dict
BlockRecordedIfModified(bbs, abs, i) ==
    /\ bbs[i + 1] # abs[i + 1]
    /\ CompareInstructions(bbs[i + 1], abs[i + 1]).modified # <<>>

\* whether the loop of _compare_function records index i (0-based)
BlockRecorded(bbs, abs, i) ==
    /\ bbs[i + 1] # abs[i + 1]
    /\ DictTruthy(CompareInstructions(bbs[i + 1], abs[i + 1]))

CompareFunction(bbs, abs) ==
    [added_blocks |-> <<>>, removed_blocks |-> <<>>,
     modified_blocks |->
        [i \in {j \in 0..(Min(Len(bbs), Len(abs)) - 1) : BlockRecorded(bbs, abs, j)}
            |-> CompareInstructions(bbs[i + 1], abs[i + 1])]]

\* the orders in which a Python set of these elements can be iterated
Orders(S) ==
    {o \in [1..Cardinality(S) -> S] : \A a, b \in 1..Cardinality(S) : a # b => o[a] # o[b]}

\* whether the loop of structural_diff records func as modified
FunctionRecorded(bir, air, func) ==
    /\ func \in DictKeys(bir) /\ func \in DictKeys(air)
    /\ DictTruthy(CompareFunction(DictGet(bir, func), DictGet(air, func)))

\* StructuralDiff that lists, in instruction_changes['modified'], the common
\* functions that have a modified block
StructuralDiffCollecting(bir, air, order) ==
    [added_functions |-> SelectSeq(order, LAMBDA f : f \notin DictKeys(bir)),
     removed_functions |->
        SelectSeq(order, LAMBDA f : f \in DictKeys(bir) /\ f \notin DictKeys(air)),
     modified_functions |->
        [f \in {g \in DictKeys(bir) \cup DictKeys(air) : FunctionRecorded(bir, air, g)}
            |-> CompareFunction(DictGet(bir, f), DictGet(air, f))],
     instruction_changes |->
        [added |-> <<>>, removed |-> <<>>,
         modified |->
            SelectSeq(order, LAMBDA f :
                /\ FunctionRecorded(bir, air, f)
                /\ DOMAIN CompareFunction(DictGet(bir, f), DictGet(air, f)).modified_blocks # {})]]

\* structural_diff, the union of the keys being iterated in the given order
StructuralDiff(bir, air, order) ==
    [added_functions |-> SelectSeq(order, LAMBDA f : f \notin DictKeys(bir)),
     removed_functions |->
        SelectSeq(order, LAMBDA f : f \in DictKeys(bir) /\ f \notin DictKeys(air)),
     modified_functions |->
        [f \in {g \in DictKeys(bir) \cup DictKeys(air) : FunctionRecorded(bir, air, g)}
            |-> CompareFunction(DictGet(bir, f), DictGet(air, f))],
     instruction_changes |-> [added |-> <<>>, removed |-> <<>>, modified |-> <<>>]]

(***************************************************************************)
(* IRDiffTool.analyze_changes                                              *)
(***************************************************************************)
\* a transformation type: the pieces its string is put together from, so
\* 'function_removal' is <<"function_", "removal">> and
\* f'instruction_{inst_type}' is <<"instruction_", inst_type>>
TypeName(prefix, rest) == <<prefix, rest>>

\* the keys of changes['instruction_changes'] in insertion order
BucketOrder == <<"added", "removed", "modified">>

FunctionEntries(ch) ==
    (IF ch.added_functions # <<>>
     THEN <<[type |-> TypeName("function_", "addition"),
             count |-> Len(ch.added_functions),
             description |-> <<"Added ", Len(ch.added_functions), " new functions">>]>>
     ELSE <<>>)
    \o
    (IF ch.removed_functions # <<>>
     THEN <<[type |-> TypeName("function_", "removal"),
             count |-> Len(ch.removed_functions),
             description |-> <<"Removed ", Len(ch.removed_functions), " functions">>]>>
     ELSE <<>>)

RECURSIVE InstructionEntries(_, _)
InstructionEntries(ch, k) ==
    IF k > Len(BucketOrder) THEN <<>>
    ELSE LET inst_type == BucketOrder[k]
             insts == ch.instruction_changes[inst_type]
         IN  (IF insts # <<>>
              THEN <<[type |-> TypeName("instruction_", inst_type),
                      count |-> Len(insts),
                      description |-> <<Len(insts), " instructions ", inst_type>>]>>
              ELSE <<>>) \o InstructionEntries(ch, k + 1)

KeyTransformations(ch) == FunctionEntries(ch) \o InstructionEntries(ch, 1)

\* the types that make the impact 'high' and 'medium' (lines 246, 248)
HighTypes == {TypeName("instruction_", "removal"), TypeName("function_", "removal")}
MediumTypes == {TypeName("instruction_", "modified"), TypeName("function_", "modified")}

PerformanceImpact(kt) ==
    IF \E k \in 1..Len(kt) : kt[k].type \in HighTypes THEN "high"
    ELSE IF \E k \in 1..Len(kt) : kt[k].type \in MediumTypes THEN "medium"
    ELSE "low"

AnalyzeChanges(ch) ==
    [optimization_effects |-> <<>>,
     performance_impact |-> PerformanceImpact(KeyTransformations(ch)),
     key_transformations |-> KeyTransformations(ch)]

(***************************************************************************)
(* main, lines 278-282: parse before.ll and after.ll, diff the two models, *)
(* analyze the diff.                                                       *)
(***************************************************************************)
DiffLexicon == {LDefF, LDefG, LRet, LZero, LNew, LClose}

\* The documents that are diffed: the empty one and those that open with a
\* function definition (the lines before the first definition never reach
\* the result: lines 59-60 discard what was collected before it).
DiffDocs ==
    {<<>>} \cup {Join(<<d>> \o ls, "\n") :
                    d \in {LDefF, LDefG}, ls \in BoundedSeq(DiffLexicon, MaxDiffLines)}

PipeInit ==
    /\ ParseIdle /\ CompareIdle /\ FormatIdle /\ ReqIdle /\ SideIdle
    /\ before_file \in DiffDocs
    /\ after_file \in DiffDocs
    /\ before_ir = <<>>
    /\ after_ir = <<>>
    /\ changes = <<>>
    /\ analysis = <<>>
    /\ stage = "parse_before"

\* before_ir = tool.parse_ir("before.ll")
ParseBefore ==
    /\ stage = "parse_before"
    /\ \E st \in {ParseIr(before_file)} :
           /\ before_ir' = st.functions
           /\ stage' = IF st.raised THEN "failed" ELSE "parse_after"
    /\ UNCHANGED <<before_file, after_file, after_ir, changes, analysis>>
    /\ UNCHANGED notPipe

\* after_ir = tool.parse_ir("after.ll")
ParseAfter ==
    /\ stage = "parse_after"
    /\ \E st \in {ParseIr(after_file)} :
           /\ after_ir' = st.functions
           /\ stage' = IF st.raised THEN "failed" ELSE "diff"
    /\ UNCHANGED <<before_file, after_file, before_ir, changes, analysis>>
    /\ UNCHANGED notPipe

\* changes = tool.structural_diff(before_ir, after_ir)
RunStructuralDiff ==
    /\ stage = "diff"
    /\ \E order \in Orders(DictKeys(before_ir) \cup DictKeys(after_ir)) :
            changes' = StructuralDiff(before_ir, after_ir, order)
    /\ stage' = "analyze"
    /\ UNCHANGED <<before_file, after_file, before_ir, after_ir, analysis>>
    /\ UNCHANGED notPipe

\* analysis = tool.analyze_changes(changes)
RunAnalyze ==
    /\ stage = "analyze"
    /\ analysis' = AnalyzeChanges(changes)
    /\ stage' = "done"
    /\ UNCHANGED <<before_file, after_file, before_ir, after_ir, changes>>
    /\ UNCHANGED notPipe

PipeNext == ParseBefore \/ ParseAfter \/ RunStructuralDiff \/ RunAnalyze

SpecDiff == PipeInit /\ [][PipeNext]_vars

(***************************************************************************)
(* analyze_changes on a changes dict whose instruction_changes lists a     *)
(* caller has filled.                                                      *)
(***************************************************************************)
FuncNames == {<<"f">>, <<"g">>}

\* lists of function names without repetition
NameLists == {l \in BoundedSeq(FuncNames, MaxBucket) :
                \A a, b \in 1..Len(l) : a # b => l[a] # l[b]}

\* lists of instruction lines
InstLists == {[k \in 1..n |-> LRet] : n \in 0..MaxBucket}

AnalyzeInit ==
    /\ ParseIdle /\ CompareIdle /\ FormatIdle /\ ReqIdle /\ SideIdle
    /\ before_file = <<>> /\ after_file = <<>>
    /\ before_ir = <<>> /\ after_ir = <<>>
    /\ changes \in [added_functions : NameLists,
                    removed_functions : NameLists,
                    modified_functions : {<<>>},
                    instruction_changes :
                        [added : InstLists, removed : InstLists, modified : InstLists]]
    /\ analysis = <<>>
    /\ stage = "analyze"

AnalyzeNext == RunAnalyze

SpecAnalyze == AnalyzeInit /\ [][AnalyzeNext]_vars

(***************************************************************************)
(* _compare_function on two block sequences of one function.               *)
(***************************************************************************)
BlockA == <<LRet>>
BlockB == <<LRet, LZero>>
BlockC == <<LZero, LRet>>
BlockX == <<LNew>>

Blocks == {BlockA, BlockB, BlockC, BlockX}

CompareInit ==
    /\ ParseIdle /\ PipeIdle /\ FormatIdle /\ ReqIdle /\ SideIdle
    /\ before_blocks \in BoundedSeq(Blocks, MaxBlocks)
    /\ after_blocks \in BoundedSeq(Blocks, MaxBlocks + 1)
    /\ func_changes = <<>>
    /\ cstate = "call"

\* func_changes = self._compare_function(before_blocks, after_blocks)
CallCompareFunction ==
    /\ cstate = "call"
    /\ func_changes' = CompareFunction(before_blocks, after_blocks)
    /\ cstate' = "returned"
    /\ UNCHANGED <<before_blocks, after_blocks, notCompare>>

CompareNext == CallCompareFunction

SpecCompare == CompareInit /\ [][CompareNext]_vars

(***************************************************************************)
(* IRDiffTool._format_side_by_side and _align_lines                        *)
(***************************************************************************)
\* f"{text:<{width}}": text, filled with spaces on the right up to width
PadRight(text, width) ==
    text \o [k \in 1..(width - Len(text)) |-> " "]

\* max(len(line) for line in lines) if lines else 0
RECURSIVE MaxLen(_)
MaxLen(lines) ==
    IF lines = <<>> THEN 0 ELSE Max(Len(Head(lines)), MaxLen(Tail(lines)))

\* the row of a before line and an after line (line 201)
PairRow(b, a, max_before) ==
    PadRight(RStrip(b), max_before) \o <<" ", "|", " ">> \o RStrip(a)

\* the row of a before line that has no after line (line 206)
BeforeRow(b, max_before) == PadRight(RStrip(b), max_before) \o <<" ", "|">>

\* the row of an after line that has no before line (line 209)
AfterRow(a, max_before) == PadRight(<<>>, max_before) \o <<" ", "|", " ">> \o RStrip(a)

\* AlignLines without the rows of the longer side
AlignLinesZipOnly(before, after) ==
    [k \in 1..Min(Len(before), Len(after)) |->
        PairRow(before[k], after[k], MaxLen(before))]

AlignLines(before, after) ==
    LET max_before == MaxLen(before)
        m == Len(before)
        n == Len(after)
    IN  [k \in 1..Min(m, n) |-> PairRow(before[k], after[k], max_before)]
        \o (IF m > n
            THEN [k \in 1..(m - n) |-> BeforeRow(before[n + k], max_before)]
            ELSE IF n > m
            THEN [k \in 1..(n - m) |-> AfterRow(after[m + k], max_before)]
            ELSE <<>>)

\* the texts of the lines of the two files, as readlines() returns them
TAb      == <<"a", "b", "\n">>
TCSpace  == <<"c", " ", "\n">>
TBlank   == <<"\n">>
TX       == <<"x">>

Texts == {TAb, TCSpace, TBlank, TX}

\* the lines of a unified diff: a marker and the text of the line
DiffLines == {<<mark>> \o t : mark \in {"-", "+", " "}, t \in Texts}

FormatInit ==
    /\ ParseIdle /\ PipeIdle /\ CompareIdle /\ ReqIdle /\ SideIdle
    /\ section \in BoundedSeq(DiffLines, MaxSection)
    /\ spos = 1
    /\ output = <<>>
    /\ before_lines = <<>>
    /\ after_lines = <<>>
    /\ aligned = <<>>
    /\ fstate = "loop"

\* one iteration of the loop over the section (lines 177-187)
FormatLine ==
    /\ fstate = "loop"
    /\ spos <= Len(section)
    /\ LET line == section[spos]
       IN  IF StartsWith(line, <<"-">>)
           THEN /\ before_lines' = Append(before_lines, Tail(line))
                /\ UNCHANGED <<after_lines, output, aligned>>
           ELSE IF StartsWith(line, <<"+">>)
           THEN /\ after_lines' = Append(after_lines, Tail(line))
                /\ UNCHANGED <<before_lines, output, aligned>>
           ELSE IF before_lines # <<>> \/ after_lines # <<>>
           THEN /\ aligned' = <<[before |-> before_lines, after |-> after_lines,
                                 rows |-> AlignLines(before_lines, after_lines)]>>
                /\ output' = Append(output \o AlignLines(before_lines, after_lines), line)
                /\ before_lines' = <<>>
                /\ after_lines' = <<>>
           ELSE /\ output' = Append(output, line)
                /\ UNCHANGED <<before_lines, after_lines, aligned>>
    /\ spos' = spos + 1
    /\ UNCHANGED <<section, fstate, notFormat>>

\* after the loop: the open run is aligned, the rows are returned
\* (lines 189-192)
FormatReturn ==
    /\ fstate = "loop"
    /\ spos > Len(section)
    /\ IF before_lines # <<>> \/ after_lines # <<>>
       THEN /\ aligned' = <<[before |-> before_lines, after |-> after_lines,
                             rows |-> AlignLines(before_lines, after_lines)]>>
            /\ output' = output \o AlignLines(before_lines, after_lines)
       ELSE UNCHANGED <<aligned, output>>
    /\ fstate' = "returned"
    /\ UNCHANGED <<section, spos, before_lines, after_lines, notFormat>>

FormatNext == FormatLine \/ FormatReturn

SpecFormat == FormatInit /\ [][FormatNext]_vars

(***************************************************************************)
(* difflib.unified_diff(before_lines, after_lines, fromfile="Before",      *)
(* tofile="After", lineterm=""), the call of generate_side_by_side_diff    *)
(* (lines 148-152): the two file-header lines, then one hunk marker and    *)
(* the hunk's lines.  A text of fewer than nine lines has no run of more   *)
(* than six common lines between two changes, so its diff is one hunk.     *)
(***************************************************************************)
HeaderFrom == <<"-", "-", "-", " ", "B", "e", "f", "o", "r", "e">>   \* --- Before
HeaderTo   == <<"+", "+", "+", " ", "A", "f", "t", "e", "r">>        \* +++ After
HunkMark   == <<"@", "@">>

\* the common runs a[i..i+k-1] = b[j..j+k-1] inside a[alo..ahi], b[blo..bhi]
Matches(a, b, alo, ahi, blo, bhi) ==
    {m \in (alo..ahi) \X (blo..bhi) \X (1..(ahi - alo + 1)) :
        /\ m[1] + m[3] - 1 <= ahi
        /\ m[2] + m[3] - 1 <= bhi
        /\ \A d \in 0..(m[3] - 1) : a[m[1] + d] = b[m[2] + d]}

\* SequenceMatcher.find_longest_match: the longest common run, of those the
\* one that starts earliest in a, of those the one that starts earliest in b
LongestMatch(a, b, alo, ahi, blo, bhi) ==
    CHOOSE m \in Matches(a, b, alo, ahi, blo, bhi) :
        \A o \in Matches(a, b, alo, ahi, blo, bhi) :
            \/ o[3] < m[3]
            \/ o[3] = m[3] /\ o[1] > m[1]
            \/ o[3] = m[3] /\ o[1] = m[1] /\ o[2] >= m[2]

Tagged(tag, lines, lo, hi) == [k \in 1..(hi - lo + 1) |-> [tag |-> tag, line |-> lines[lo + k - 1]]]

\* the opcodes of SequenceMatcher, line by line: the lines left of the
\* longest match, the match as common lines, the lines right of it; where
\* nothing matches, the lines of a as '-' and then the lines of b as '+'
RECURSIVE EditScript(_, _, _, _, _, _)
EditScript(a, b, alo, ahi, blo, bhi) ==
    IF Matches(a, b, alo, ahi, blo, bhi) = {}
    THEN Tagged("-", a, alo, ahi) \o Tagged("+", b, blo, bhi)
    ELSE LET m == LongestMatch(a, b, alo, ahi, blo, bhi)
         IN  EditScript(a, b, alo, m[1] - 1, blo, m[2] - 1)
             \o Tagged(" ", a, m[1], m[1] + m[3] - 1)
             \o EditScript(a, b, m[1] + m[3], ahi, m[2] + m[3], bhi)

\* the number of common lines a script opens with
RECURSIVE LeadingCommon(_)
LeadingCommon(script) ==
    IF script = <<>> \/ Head(script).tag # " " THEN 0
    ELSE 1 + LeadingCommon(Tail(script))

RECURSIVE TrailingCommon(_)
TrailingCommon(script) ==
    IF script = <<>> \/ script[Len(script)].tag # " " THEN 0
    ELSE 1 + TrailingCommon(SubSeq(script, 1, Len(script) - 1))

Digits == <<"0", "1", "2", "3", "4", "5", "6", "7", "8", "9">>

\* str(n) for n >= 0
RECURSIVE Decimal(_)
Decimal(n) ==
    IF n < 10 THEN <<Digits[n + 1]>>
    ELSE Decimal(n \div 10) \o <<Digits[(n % 10) + 1]>>

\* difflib._format_range_unified(start, start + length)
FormatRange(start, length) ==
    IF length = 1 THEN Decimal(start + 1)
    ELSE Decimal(IF length = 0 THEN start ELSE start + 1) \o <<",">> \o Decimal(length)

CountTags(script, tags) == Cardinality({k \in 1..Len(script) : script[k].tag \in tags})

\* the hunk of a script: three lines of context are kept at each end
Hunk(script) ==
    LET skipped == Max(0, LeadingCommon(script) - 3)
        kept == SubSeq(script, skipped + 1,
                       Len(script) - Max(0, TrailingCommon(script) - 3))
    IN  << HunkMark \o <<" ", "-">>
              \o FormatRange(skipped, CountTags(kept, {" ", "-"}))
              \o <<" ", "+">>
              \o FormatRange(skipped, CountTags(kept, {" ", "+"}))
              \o <<" ">> \o HunkMark >>
        \o [k \in 1..Len(kept) |-> <<kept[k].tag>> \o kept[k].line]

\* nothing for equal texts
UnifiedDiff(a, b) ==
    LET script == EditScript(a, b, 1, Len(a), 1, Len(b))
    IN  IF \A k \in 1..Len(script) : script[k].tag = " " THEN <<>>
        ELSE <<HeaderFrom, HeaderTo>> \o Hunk(script)

(***************************************************************************)
(* IRDiffTool.generate_side_by_side_diff (lines 141-169) and the           *)
(* _format_side_by_side calls it makes.                                    *)
(***************************************************************************)
\* one iteration of the loop of _format_side_by_side (lines 177-187) on
\* its locals; calls collects the _align_lines calls
FormatStep(st, line) ==
    IF StartsWith(line, <<"-">>)
    THEN [st EXCEPT !.before_lines = Append(@, Tail(line))]
    ELSE IF StartsWith(line, <<"+">>)
    THEN [st EXCEPT !.after_lines = Append(@, Tail(line))]
    ELSE IF st.before_lines # <<>> \/ st.after_lines # <<>>
    THEN [output |-> Append(st.output \o AlignLines(st.before_lines, st.after_lines), line),
          before_lines |-> <<>>,
          after_lines |-> <<>>,
          calls |-> Append(st.calls, [before |-> st.before_lines,
                                      after |-> st.after_lines,
                                      rows |-> AlignLines(st.before_lines, st.after_lines)])]
    ELSE [st EXCEPT !.output = Append(@, line)]

RECURSIVE FormatLoop(_, _, _)
FormatLoop(st, sec, k) ==
    IF k > Len(sec) THEN st ELSE FormatLoop(FormatStep(st, sec[k]), sec, k + 1)

\* _format_side_by_side(section): the loop, then the open run (lines 189-190)
FormatSideBySide(sec) ==
    LET st == FormatLoop([output |-> <<>>, before_lines |-> <<>>,
                          after_lines |-> <<>>, calls |-> <<>>], sec, 1)
    IN  IF st.before_lines # <<>> \/ st.after_lines # <<>>
        THEN [output |-> st.output \o AlignLines(st.before_lines, st.after_lines),
              calls |-> Append(st.calls, [before |-> st.before_lines,
                                          after |-> st.after_lines,
                                          rows |-> AlignLines(st.before_lines, st.after_lines)])]
        ELSE [output |-> st.output, calls |-> st.calls]

\* the lists readlines() can return: only the last line can lack its "\n"
FileLines ==
    {t \in BoundedSeq(Texts, MaxTextLines) : \A k \in 1..(Len(t) - 1) : t[k] # TX}

SideInit ==
    /\ ParseIdle /\ PipeIdle /\ CompareIdle /\ FormatIdle /\ ReqIdle
    /\ before_text \in FileLines
    /\ after_text \in FileLines
    /\ diff = <<>>
    /\ dpos = 0
    /\ current_section = <<>>
    /\ sbs_output = <<>>
    /\ sbs_rows = <<>>
    /\ sbs_text = <<>>
    /\ gstate = "read"

\* diff = list(difflib.unified_diff(...)) (lines 148-156)
CallUnifiedDiff ==
    /\ gstate = "read"
    /\ diff' = UnifiedDiff(before_text, after_text)
    /\ dpos' = 1
    /\ gstate' = "loop"
    /\ UNCHANGED <<before_text, after_text, current_section, sbs_output, sbs_rows,
                   sbs_text, notSide>>

\* one iteration of the loop over diff (lines 158-164)
SectionLine ==
    /\ gstate = "loop"
    /\ dpos <= Len(diff)
    /\ IF StartsWith(diff[dpos], HunkMark)
       THEN /\ IF current_section # <<>>
               THEN \E r \in {FormatSideBySide(current_section)} :
                        /\ sbs_output' = sbs_output \o r.output
                        /\ sbs_rows' = sbs_rows \o r.calls
               ELSE UNCHANGED <<sbs_output, sbs_rows>>
            /\ current_section' = <<>>
       ELSE /\ current_section' = Append(current_section, diff[dpos])
            /\ UNCHANGED <<sbs_output, sbs_rows>>
    /\ dpos' = dpos + 1
    /\ UNCHANGED <<before_text, after_text, diff, sbs_text, gstate, notSide>>

\* after the loop: the open section is formatted, the output lines are
\* joined (lines 166-169)
SideReturn ==
    /\ gstate = "loop"
    /\ dpos > Len(diff)
    /\ \E r \in {IF current_section # <<>> THEN FormatSideBySide(current_section)
                 ELSE [output |-> <<>>, calls |-> <<>>]} :
            /\ sbs_output' = sbs_output \o r.output
            /\ sbs_rows' = sbs_rows \o r.calls
            /\ sbs_text' = Join(sbs_output \o r.output, "\n")
    /\ gstate' = "returned"
    /\ UNCHANGED <<before_text, after_text, diff, dpos, current_section, notSide>>

SideNext == CallUnifiedDiff \/ SectionLine \/ SideReturn

SpecSideBySide == SideInit /\ [][SideNext]_vars

(***************************************************************************)
(* The request handlers: simple_app.index, main of ir_diff_tool.py,        *)
(* index of webapp/app.py and index of Project/app.py.  Every request of   *)
(* one program works in the same directory.                                *)
(***************************************************************************)
Requests == 1..NumRequests

\* the paths the handlers name
TempCpp == "temp.cpp"
BeforeLl == "before.ll"
AfterLl == "after.ll"
Upload == "uploads/file.cpp"
GenBeforeLl == "generated/before.ll"
GenAfterLl == "generated/after.ll"
GenDiff == "generated/diff_output.txt"

Paths == {TempCpp, BeforeLl, AfterLl, Upload, GenBeforeLl, GenAfterLl, GenDiff}

\* a path without a file
NoFile == [src |-> 0, writer |-> 0]

\* a file: the request whose source it was made from, and the request
\* that wrote it
File(src, writer) == [src |-> src, writer |-> writer]

NoResult == [before |-> NoFile, after |-> NoFile]

\* the request ends with this response
Finish(r, how) ==
    /\ pc' = [pc EXCEPT ![r] = "done"]
    /\ outcome' = [outcome EXCEPT ![r] = how]

Goto(r, next) ==
    /\ pc' = [pc EXCEPT ![r] = next]
    /\ UNCHANGED outcome

\* fs after a tool that reads path from and, when it succeeds, writes path to
Tool(r, from, to, succeeded) ==
    IF succeeded THEN [fs EXCEPT ![to] = File(fs[from].src, r)] ELSE fs

\* fs after the compiler has run on the request's own source
Compile(r, to, succeeded) ==
    IF succeeded THEN [fs EXCEPT ![to] = File(r, r)] ELSE fs

Rc(succeeded) == IF succeeded THEN "ok" ELSE "failed"

ReqInit(a) ==
    /\ ParseIdle /\ PipeIdle /\ CompareIdle /\ FormatIdle /\ SideIdle
    /\ app = a
    /\ fs = [p \in Paths |-> NoFile]
    /\ pc = [r \in Requests |-> "start"]
    /\ clang_rc = [r \in Requests |-> "none"]
    /\ opt_rc = [r \in Requests |-> "none"]
    /\ result = [r \in Requests |-> NoResult]
    /\ outcome = [r \in Requests |-> "none"]

\* open(path) raises FileNotFoundError, os.remove(path) too
Missing(path) == fs[path] = NoFile

\* os.remove(path) by request r, then the handler goes on or, after the
\* last removal, returns its response
Remove(r, path, next) ==
    IF Missing(path)
    THEN UNCHANGED fs /\ Finish(r, "failure")
    ELSE /\ fs' = [fs EXCEPT ![path] = NoFile]
         /\ IF next = "done" THEN Finish(r, "success") ELSE Goto(r, next)

(*------------------------- simple_app.index ------------------------------*)
\* SimpleRaise that goes on although the tool failed
SimpleRaiseIgnored(r, succeeded, next) == Goto(r, next)

\* `if returncode != 0: raise Exception(...)`, caught by the handler's
\* `except Exception`, which returns success False (lines 22-23, 29-30,
\* 47-51)
SimpleRaise(r, succeeded, next) ==
    IF succeeded THEN Goto(r, next) ELSE Finish(r, "failure")

\* lines 15-16: the source is written to temp.cpp
SimpleWriteSource(r) ==
    /\ app = "simple" /\ pc[r] = "start"
    /\ fs' = [fs EXCEPT ![TempCpp] = File(r, r)]
    /\ Goto(r, "clang")
    /\ UNCHANGED <<app, clang_rc, opt_rc, result, notReq>>

\* lines 19-23: clang++ temp.cpp -o before.ll
SimpleClang(r) ==
    /\ app = "simple" /\ pc[r] = "clang"
    /\ \E ok \in BOOLEAN :
         LET succeeded == ~Missing(TempCpp) /\ ok
         IN  /\ fs' = Tool(r, TempCpp, BeforeLl, succeeded)
             /\ clang_rc' = [clang_rc EXCEPT ![r] = Rc(succeeded)]
             /\ SimpleRaise(r, succeeded, "opt")
    /\ UNCHANGED <<app, opt_rc, result, notReq>>

\* lines 26-30: opt before.ll -o after.ll
SimpleOpt(r) ==
    /\ app = "simple" /\ pc[r] = "opt"
    /\ \E ok \in BOOLEAN :
         LET succeeded == ~Missing(BeforeLl) /\ ok
         IN  /\ fs' = Tool(r, BeforeLl, AfterLl, succeeded)
             /\ opt_rc' = [opt_rc EXCEPT ![r] = Rc(succeeded)]
             /\ SimpleRaise(r, succeeded, "read")
    /\ UNCHANGED <<app, clang_rc, result, notReq>>

\* lines 33-35: both files are opened and read
SimpleRead(r) ==
    /\ app = "simple" /\ pc[r] = "read"
    /\ IF Missing(BeforeLl) \/ Missing(AfterLl)
       THEN Finish(r, "failure") /\ UNCHANGED result
       ELSE /\ result' = [result EXCEPT ![r] =
                            [before |-> fs[BeforeLl], after |-> fs[AfterLl]]]
            /\ Goto(r, "remove_temp")
    /\ UNCHANGED <<app, fs, clang_rc, opt_rc, notReq>>

\* line 38: os.remove("temp.cpp")
SimpleRemoveTemp(r) ==
    /\ app = "simple" /\ pc[r] = "remove_temp"
    /\ Remove(r, TempCpp, "remove_before")
    /\ UNCHANGED <<app, clang_rc, opt_rc, result, notReq>>

\* line 39: os.remove("before.ll")
SimpleRemoveBefore(r) ==
    /\ app = "simple" /\ pc[r] = "remove_before"
    /\ Remove(r, BeforeLl, "remove_after")
    /\ UNCHANGED <<app, clang_rc, opt_rc, result, notReq>>

\* lines 40-46: os.remove("after.ll"), then the success response
SimpleRemoveAfter(r) ==
    /\ app = "simple" /\ pc[r] = "remove_after"
    /\ Remove(r, AfterLl, "done")
    /\ UNCHANGED <<app, clang_rc, opt_rc, result, notReq>>

SimpleNext ==
    \/ \E r \in Requests : SimpleWriteSource(r)
    \/ \E r \in Requests : SimpleClang(r)
    \/ \E r \in Requests : SimpleOpt(r)
    \/ \E r \in Requests : SimpleRead(r)
    \/ \E r \in Requests : SimpleRemoveTemp(r)
    \/ \E r \in Requests : SimpleRemoveBefore(r)
    \/ \E r \in Requests : SimpleRemoveAfter(r)

SpecSimple == ReqInit("simple") /\ [][SimpleNext]_vars

(*------------------------- ir_diff_tool.main -----------------------------*)
\* `if not tool.run_clang(...): sys.exit(1)` and the same for run_opt
\* (lines 271-276); run_clang and run_opt return False when the tool fails
\* (lines 29-31, 39-41)
CliExit(r, succeeded, next) ==
    IF succeeded THEN Goto(r, next) ELSE Finish(r, "failure")

\* lines 263-265: the source file must exist
CliCheckSource(r) ==
    /\ app = "cli" /\ pc[r] = "start"
    /\ \E exists \in BOOLEAN :
         IF exists THEN Goto(r, "clang") ELSE Finish(r, "failure")
    /\ UNCHANGED <<app, fs, clang_rc, opt_rc, result, notReq>>

\* lines 271-272: tool.run_clang(args.source, "before.ll", args.opt_level)
CliClang(r) ==
    /\ app = "cli" /\ pc[r] = "clang"
    /\ \E ok \in BOOLEAN :
         /\ fs' = Compile(r, BeforeLl, ok)
         /\ clang_rc' = [clang_rc EXCEPT ![r] = Rc(ok)]
         /\ CliExit(r, ok, "opt")
    /\ UNCHANGED <<app, opt_rc, result, notReq>>

\* lines 275-276: tool.run_opt(args.opt_pass), from before.ll to after.ll
CliOpt(r) ==
    /\ app = "cli" /\ pc[r] = "opt"
    /\ \E ok \in BOOLEAN :
         LET succeeded == ~Missing(BeforeLl) /\ ok
         IN  /\ fs' = Tool(r, BeforeLl, AfterLl, succeeded)
             /\ opt_rc' = [opt_rc EXCEPT ![r] = Rc(succeeded)]
             /\ CliExit(r, succeeded, "read")
    /\ UNCHANGED <<app, clang_rc, result, notReq>>

\* lines 279-307: both files are parsed, the report is printed; an
\* exception ends the program with exit status 1
CliReport(r) ==
    /\ app = "cli" /\ pc[r] = "read"
    /\ IF Missing(BeforeLl) \/ Missing(AfterLl)
       THEN Finish(r, "failure") /\ UNCHANGED result
       ELSE /\ result' = [result EXCEPT ![r] =
                            [before |-> fs[BeforeLl], after |-> fs[AfterLl]]]
            /\ Finish(r, "success")
    /\ UNCHANGED <<app, fs, clang_rc, opt_rc, notReq>>

CliNext ==
    \/ \E r \in Requests : CliCheckSource(r)
    \/ \E r \in Requests : CliClang(r)
    \/ \E r \in Requests : CliOpt(r)
    \/ \E r \in Requests : CliReport(r)

(*------------------------- webapp/app.py index ---------------------------*)
\* The IRDiffTool of webapp/app.py comes from webapp.enhanced_ir_diff: a
\* failing compile or optimize step raises, and the handler's
\* `except Exception` renders the error (lines 79-80).
WebRaise(r, succeeded, next) ==
    IF succeeded THEN Goto(r, next) ELSE Finish(r, "failure")

\* line 49: ir_diff_tool.run_clang(source_code, "before.ll")
WebClang(r) ==
    /\ app = "webapp" /\ pc[r] = "start"
    /\ \E ok \in BOOLEAN :
         /\ fs' = Compile(r, BeforeLl, ok)
         /\ clang_rc' = [clang_rc EXCEPT ![r] = Rc(ok)]
         /\ WebRaise(r, ok, "opt")
    /\ UNCHANGED <<app, opt_rc, result, notReq>>

\* line 50: ir_diff_tool.run_opt(opt_pass, "before.ll", "after.ll")
WebOpt(r) ==
    /\ app = "webapp" /\ pc[r] = "opt"
    /\ \E ok \in BOOLEAN :
         LET succeeded == ~Missing(BeforeLl) /\ ok
         IN  /\ fs' = Tool(r, BeforeLl, AfterLl, succeeded)
             /\ opt_rc' = [opt_rc EXCEPT ![r] = Rc(succeeded)]
             /\ WebRaise(r, succeeded, "read")
    /\ UNCHANGED <<app, clang_rc, result, notReq>>

\* lines 53-64: the diffs are made from both files, after.ll is read
WebDiff(r) ==
    /\ app = "webapp" /\ pc[r] = "read"
    /\ IF Missing(BeforeLl) \/ Missing(AfterLl)
       THEN Finish(r, "failure") /\ UNCHANGED result
       ELSE /\ result' = [result EXCEPT ![r] =
                            [before |-> fs[BeforeLl], after |-> fs[AfterLl]]]
            /\ Goto(r, "remove_before")
    /\ UNCHANGED <<app, fs, clang_rc, opt_rc, notReq>>

\* line 67: os.remove("before.ll")
WebRemoveBefore(r) ==
    /\ app = "webapp" /\ pc[r] = "remove_before"
    /\ Remove(r, BeforeLl, "remove_after")
    /\ UNCHANGED <<app, clang_rc, opt_rc, result, notReq>>

\* lines 68-77: os.remove("after.ll"), then the page with the results
WebRemoveAfter(r) ==
    /\ app = "webapp" /\ pc[r] = "remove_after"
    /\ Remove(r, AfterLl, "done")
    /\ UNCHANGED <<app, clang_rc, opt_rc, result, notReq>>

WebNext ==
    \/ \E r \in Requests : WebClang(r)
    \/ \E r \in Requests : WebOpt(r)
    \/ \E r \in Requests : WebDiff(r)
    \/ \E r \in Requests : WebRemoveBefore(r)
    \/ \E r \in Requests : WebRemoveAfter(r)

(*------------------------- Project/app.py index --------------------------*)
\* subprocess.run(..., check=True): a failing tool raises
\* CalledProcessError, which the handler does not catch, and the request
\* ends with an error response (lines 27-28)
ProjRaise(r, succeeded, next) ==
    IF succeeded THEN Goto(r, next) ELSE Finish(r, "failure")

\* lines 18-21: the uploaded file is saved
ProjSave(r) ==
    /\ app = "project" /\ pc[r] = "start"
    /\ fs' = [fs EXCEPT ![Upload] = File(r, r)]
    /\ Goto(r, "clang")
    /\ UNCHANGED <<app, clang_rc, opt_rc, result, notReq>>

\* line 27: clang source_path -o generated/before.ll
ProjClang(r) ==
    /\ app = "project" /\ pc[r] = "clang"
    /\ \E ok \in BOOLEAN :
         LET succeeded == ~Missing(Upload) /\ ok
         IN  /\ fs' = Tool(r, Upload, GenBeforeLl, succeeded)
             /\ clang_rc' = [clang_rc EXCEPT ![r] = Rc(succeeded)]
             /\ ProjRaise(r, succeeded, "opt")
    /\ UNCHANGED <<app, opt_rc, result, notReq>>

\* line 28: opt generated/before.ll -o generated/after.ll
ProjOpt(r) ==
    /\ app = "project" /\ pc[r] = "opt"
    /\ \E ok \in BOOLEAN :
         LET succeeded == ~Missing(GenBeforeLl) /\ ok
         IN  /\ fs' = Tool(r, GenBeforeLl, GenAfterLl, succeeded)
             /\ opt_rc' = [opt_rc EXCEPT ![r] = Rc(succeeded)]
             /\ ProjRaise(r, succeeded, "read")
    /\ UNCHANGED <<app, clang_rc, result, notReq>>

\* lines 31-39: both files are read, the diff is written, the request is
\* redirected to the diff page
ProjDiff(r) ==
    /\ app = "project" /\ pc[r] = "read"
    /\ IF Missing(GenBeforeLl) \/ Missing(GenAfterLl)
       THEN Finish(r, "failure") /\ UNCHANGED <<result, fs>>
       ELSE /\ result' = [result EXCEPT ![r] =
                            [before |-> fs[GenBeforeLl], after |-> fs[GenAfterLl]]]
            /\ fs' = [fs EXCEPT ![GenDiff] = File(fs[GenAfterLl].src, r)]
            /\ Finish(r, "success")
    /\ UNCHANGED <<app, clang_rc, opt_rc, notReq>>

ProjNext ==
    \/ \E r \in Requests : ProjSave(r)
    \/ \E r \in Requests : ProjClang(r)
    \/ \E r \in Requests : ProjOpt(r)
    \/ \E r \in Requests : ProjDiff(r)

(*------------------------- every program ---------------------------------*)
Apps == {"simple", "cli", "webapp", "project"}

RequestsInit == \E a \in Apps : ReqInit(a)

RequestsNext == SimpleNext \/ CliNext \/ WebNext \/ ProjNext

SpecRequests == RequestsInit /\ [][RequestsNext]_vars

\* the two IR files of the program that is running
IrBefore == IF app = "project" THEN GenBeforeLl ELSE BeforeLl
IrAfter == IF app = "project" THEN GenAfterLl ELSE AfterLl

\* the files a handler makes for one request and has no use for afterwards
ScratchPaths == {TempCpp, BeforeLl, AfterLl, GenBeforeLl, GenAfterLl}

\* C4: requests in flight together do not share the scratch IR paths: the
\* IR file a request has produced and not yet read is still the one it made
\* from its own source (no other request has overwritten or deleted it),
\* and the IR it reads back was made from its own source.
C4_RequestsIsolated ==
    \A r \in Requests :
        /\ pc[r] \in {"opt", "read"} => fs[IrBefore] = File(r, r)
        /\ pc[r] = "read" => fs[IrAfter] = File(r, r)
        /\ result[r] # NoResult =>
             result[r].before = File(r, r) /\ result[r].after = File(r, r)

C7_NoScratchLeft ==
    \A r \in Requests :
        pc[r] = "done" => \A p \in ScratchPaths : fs[p].writer # r

(***************************************************************************)
(* Properties of _align_lines (SpecFormat).                                *)
(***************************************************************************)
\* the i-th line of a list, or the empty text when the list is shorter
Cell(lines, i) == IF i <= Len(lines) THEN lines[i] ELSE <<>>

Spaces(n) == [k \in 1..n |-> " "]

\* text filled with spaces up to the length of the longest line of lines
Filled(text, lines) ==
    IF \E k \in 1..Len(lines) : Len(lines[k]) > Len(text)
    THEN text \o Spaces((CHOOSE w \in {Len(lines[k]) : k \in 1..Len(lines)} :
                            \A k \in 1..Len(lines) : Len(lines[k]) <= w) - Len(text))
    ELSE text

\* C10 as stated: max(m, n) rows, and every row is the before cell, then
\* " | ", then the after cell, the cell of the shorter side being blank.
C10_EveryRowBothColumns ==
    aligned # <<>> =>
        LET call == aligned[1]
            rows == call.rows
        IN  /\ Len(rows) = Max(Len(call.before), Len(call.after))
            /\ \A i \in 1..Len(rows) :
                 rows[i] = Filled(RStrip(Cell(call.before, i)), call.before)
                           \o <<" ", "|", " ">> \o RStrip(Cell(call.after, i))

\* C10, amended: max(m, n) rows; row i below min(m, n) is the i-th before
\* line, right-stripped and filled to the longest before line, " | " and
\* the right-stripped i-th after line; a leftover before line is followed
\* by " |" and nothing else; a leftover after line follows a blank cell of
\* that width and " | ".
C10_AlignRows ==
    aligned # <<>> =>
        LET call == aligned[1]
            rows == call.rows
            m == Len(call.before)
            n == Len(call.after)
        IN  /\ Len(rows) = Max(m, n)
            /\ \A i \in 1..Len(rows) :
                 rows[i] =
                    IF i <= m /\ i <= n
                    THEN Filled(RStrip(call.before[i]), call.before)
                         \o <<" ", "|", " ">> \o RStrip(call.after[i])
                    ELSE IF i <= m
                    THEN Filled(RStrip(call.before[i]), call.before) \o <<" ", "|">>
                    ELSE Filled(<<>>, call.before)
                         \o <<" ", "|", " ">> \o RStrip(call.after[i])

\* _align_lines has returned for a run of two before lines, one of them
\* with trailing blanks, and one after line
C10_Witness ==
    /\ aligned # <<>>
    /\ aligned[1].before = <<TAb, TCSpace>>
    /\ aligned[1].after = <<TX>>
    /\ aligned[1].rows = << <<"a", "b", " ", " ", "|", " ", "x">>,
                            <<"c", " ", " ", " ", "|">> >>

(***************************************************************************)
(* Properties of parse_ir (SpecParse).                                     *)
(***************************************************************************)
IsDefineLine(line) == StartsWith(line, KwDefine)

HasDefineLine(text) == \E k \in 1..Len(Lines(text)) : IsDefineLine(Lines(text)[k])

\* a body line: it begins with whitespace and is not a comment
IsBodyLine(line) ==
    /\ line # <<>>
    /\ line[1] \in Whitespace
    /\ ~StartsWith(Strip(line), <<";">>)

\* the function-definition lines, and the body lines after the first
\* function definition, in document order
RECURSIVE InstructionLines(_, _, _)
InstructionLines(lines, k, open) ==
    IF k > Len(lines) THEN <<>>
    ELSE IF IsDefineLine(lines[k])
    THEN <<lines[k]>> \o InstructionLines(lines, k + 1, TRUE)
    ELSE IF open /\ IsBodyLine(lines[k])
    THEN <<lines[k]>> \o InstructionLines(lines, k + 1, open)
    ELSE InstructionLines(lines, k + 1, open)

\* concatenation of a sequence of sequences
RECURSIVE Flatten(_)
Flatten(ss) == IF ss = <<>> THEN <<>> ELSE Head(ss) \o Flatten(Tail(ss))

\* the blocks of every function of a model, concatenated in order
Serialize(d) == Flatten([k \in 1..Len(d) |-> Flatten(d[k].blocks)])

\* C2: the line scan of parse_ir never raises, whatever the text.
C2_ParseNeverRaises == pstate # "raised"

\* C3: once parse_ir has returned, the blocks of its result, concatenated
\* in order, are exactly the function-definition lines and the non-comment
\* body lines after a function definition, in document order.
C3_RoundTrip ==
    pstate = "done" => Serialize(functions) = InstructionLines(Lines(content), 1, FALSE)

\* C9: for a text without a function-definition line, parse_ir does not
\* raise and returns an empty mapping.
C9_NoDefineEmptyMapping ==
    ~HasDefineLine(content) =>
        /\ pstate # "raised"
        /\ pstate = "done" => functions = <<>>

\* parse_ir has returned for a three-line text without a definition line
\* that has an indented instruction line and a comment line
C9_Witness ==
    /\ pstate = "done"
    /\ ~HasDefineLine(content)
    /\ Len(Lines(content)) = 3
    /\ \E k \in 1..3 : Lines(content)[k] = LNew
    /\ \E k \in 1..3 : Lines(content)[k] = LComment
    /\ functions = <<>>

(***************************************************************************)
(* Properties of structural_diff and _compare_function.                    *)
(***************************************************************************)
\* the block sequences differ at some position both have
DifferPositionally(bbs, abs) ==
    \E i \in 1..Min(Len(bbs), Len(abs)) : bbs[i] # abs[i]

\* C1: the diff of a parsed model against itself has no added, removed or
\* modified function, and a function is reported as modified only if its
\* two block sequences differ at some position.
C1_SelfDiffEmpty ==
    stage \in {"analyze", "done"} =>
        /\ before_ir = after_ir =>
             /\ changes.added_functions = <<>>
             /\ changes.removed_functions = <<>>
             /\ DOMAIN changes.modified_functions = {}
        /\ \A f \in DOMAIN changes.modified_functions :
             DifferPositionally(DictGet(before_ir, f), DictGet(after_ir, f))

\* C8: modified_blocks has an entry at exactly the indices below the
\* shorter length where the two blocks differ, added_blocks and
\* removed_blocks are empty, and [A, B, C] against [X, A, B, C] reports
\* the indices 0, 1 and 2.
C8_ModifiedBlocksPositional ==
    cstate = "returned" =>
        /\ DOMAIN func_changes.modified_blocks =
             {i \in 0..(Min(Len(before_blocks), Len(after_blocks)) - 1) :
                before_blocks[i + 1] # after_blocks[i + 1]}
        /\ func_changes.added_blocks = <<>>
        /\ func_changes.removed_blocks = <<>>
        /\ (before_blocks = <<BlockA, BlockB, BlockC>>
                /\ after_blocks = <<BlockX, BlockA, BlockB, BlockC>>)
             => DOMAIN func_changes.modified_blocks = {0, 1, 2}

\* _compare_function has returned for [A, B, C] against [X, A, B, C]
C8_Witness ==
    /\ cstate = "returned"
    /\ before_blocks = <<BlockA, BlockB, BlockC>>
    /\ after_blocks = <<BlockX, BlockA, BlockB, BlockC>>
    /\ DOMAIN func_changes.modified_blocks = {0, 1, 2}

\* the positions both blocks have at which their lines differ
DifferingIndices(before_insts, after_insts) ==
    {i \in 1..Len(before_insts) : i <= Len(after_insts) /\ before_insts[i] # after_insts[i]}

\* the k-th smallest element of a set of numbers
NthIndex(S, k) == CHOOSE i \in S : Cardinality({j \in S : j < i}) = k - 1

\* C12: for every pair of blocks _compare_instructions was called on, the
\* 'modified' list is, in increasing index order, the pair of lines at each
\* position both blocks have where the lines differ; lines only the longer
\* block has are not reported, and 'added' and 'removed' are empty.
C12_InstructionsZipped ==
    cstate = "returned" =>
        \A i \in DOMAIN func_changes.modified_blocks :
            LET before_insts == before_blocks[i + 1]
                after_insts == after_blocks[i + 1]
                block_changes == func_changes.modified_blocks[i]
                D == DifferingIndices(before_insts, after_insts)
            IN  /\ block_changes.added = <<>>
                /\ block_changes.removed = <<>>
                /\ Len(block_changes.modified) = Cardinality(D)
                /\ \A k \in 1..Len(block_changes.modified) :
                     block_changes.modified[k] =
                        [before |-> before_insts[NthIndex(D, k)],
                         after |-> after_insts[NthIndex(D, k)]]

\* _compare_function has returned after comparing a block with a strict
\* prefix of it, two blocks that differ at both positions, and a block
\* with a longer one that differs at the first position
C12_Witness ==
    /\ cstate = "returned"
    /\ before_blocks = <<BlockA, BlockB, BlockX>>
    /\ after_blocks = <<BlockB, BlockC, BlockB>>
    /\ func_changes.modified_blocks[0].modified = <<>>
    /\ func_changes.modified_blocks[1].modified =
         <<[before |-> LRet, after |-> LZero], [before |-> LZero, after |-> LRet]>>
    /\ func_changes.modified_blocks[2].modified = <<[before |-> LNew, after |-> LRet]>>

(***************************************************************************)
(* Properties of generate_side_by_side_diff (SpecSideBySide).              *)
(***************************************************************************)
\* whether some line of the diff, after the first hunk marker, is the mark
\* followed by the text
ChangedLine(mark, text) ==
    \E p \in 1..Len(diff) :
        /\ diff[p] = <<mark>> \o text
        /\ \E q \in 1..(p - 1) : StartsWith(diff[q], HunkMark)

\* C11: every cell of every row _align_lines made for
\* generate_side_by_side_diff is a changed line of the inputs: a left cell
\* is a line of the before text that the diff marks '-', a right cell is a
\* line of the after text that the diff marks '+'; the file-header lines
\* '--- Before' and '+++ After' are the cells of no row.
C11_RowsFromChangedLines ==
    \A c \in 1..Len(sbs_rows) :
        /\ \A i \in 1..Len(sbs_rows[c].before) :
             /\ \E k \in 1..Len(before_text) : before_text[k] = sbs_rows[c].before[i]
             /\ ChangedLine("-", sbs_rows[c].before[i])
             /\ sbs_rows[c].before[i] # Tail(HeaderFrom)
        /\ \A i \in 1..Len(sbs_rows[c].after) :
             /\ \E k \in 1..Len(after_text) : after_text[k] = sbs_rows[c].after[i]
             /\ ChangedLine("+", sbs_rows[c].after[i])
             /\ sbs_rows[c].after[i] # Tail(HeaderTo)

(***************************************************************************)
(* Properties of the pipeline parse, structural_diff, analyze_changes      *)
(* (SpecDiff).                                                             *)
(***************************************************************************)
\* C13: the instruction_changes lists of every structural_diff result of
\* the pipeline are empty, and the analysis of it never has the impact
\* 'medium': the impact is 'high' exactly when some function of the before
\* model is missing from the after model, and 'low' otherwise.
C13_PipelineNeverMedium ==
    /\ stage \in {"analyze", "done"} =>
         /\ changes.instruction_changes.added = <<>>
         /\ changes.instruction_changes.removed = <<>>
         /\ changes.instruction_changes.modified = <<>>
    /\ stage = "done" =>
         /\ analysis.performance_impact # "medium"
         /\ analysis.performance_impact =
              IF DictKeys(before_ir) \ DictKeys(after_ir) # {} THEN "high" ELSE "low"

\* the pipeline has finished for two models of one function whose first
\* block was modified at an instruction, and the impact is 'low'
C13_Witness ==
    /\ stage = "done"
    /\ DictKeys(before_ir) = DictKeys(after_ir)
    /\ \E f \in DOMAIN changes.modified_functions :
         /\ 0 \in DOMAIN changes.modified_functions[f].modified_blocks
         /\ changes.modified_functions[f].modified_blocks[0].modified # <<>>
    /\ analysis.performance_impact = "low"

(***************************************************************************)
(* Properties of analyze_changes (SpecAnalyze).                            *)
(***************************************************************************)
\* C5: performance_impact is 'high' if a function was removed or the
\* 'removed' list of instruction_changes is not empty, otherwise 'medium'
\* if the 'modified' list is not empty, otherwise 'low'.
C5_ImpactPrecedence ==
    stage = "done" =>
        analysis.performance_impact =
            IF changes.removed_functions # <<>>
                  \/ changes.instruction_changes.removed # <<>>
            THEN "high"
            ELSE IF changes.instruction_changes.modified # <<>> THEN "medium"
            ELSE "low"

====
